---------------------------- MODULE Spec2Model ----------------------------
(***************************************************************************)
(* The timed, proctored test session of TCSStyleTestInterface              *)
(* (src/src/components/Test/DetailedTestReportModal.tsx, lines 622-1576):  *)
(* the React state of the component, the one-second timer, the             *)
(* visibility listener, the violation effect, the beforeunload checkpoint  *)
(* and the hand-off to the onSubmit collaborator.                          *)
(*                                                                         *)
(* React semantics the model follows:                                      *)
(*  - a user handler runs with the closure of the latest render, i.e. it   *)
(*    reads the current state;                                             *)
(*  - the timer effect has the dependency list [showInstructions], so the  *)
(*    interval callback keeps the handleAutoSubmit of the render in which  *)
(*    the test was started; what that closure reads (submitting,           *)
(*    mcqCompleted, answers, codingSubmissions) is held in timerClosure;   *)
(*  - the violation effect runs after every render in which one of its     *)
(*    dependencies changed; an effect run whose guard is false does        *)
(*    nothing, so the effect is the action autoSubmitTest, due exactly     *)
(*    when its guard holds, and it runs before any other event is handled; *)
(*  - state updates made after an await are batched into one render.       *)
(***************************************************************************)
EXTENDS Integers, Sequences, FiniteSets, TLC

\* ------------------------------------------------------------------ bounds
\* test.duration * 60, the seconds on the clock at start, scaled down
InitialTimeLeft == 2
\* hide events handled in one session
MaxViolations == 4
\* expiry branches of the interval callback counted in one session (later
\* ones are taken all the same, the counters stay)
MaxExpiries == 2
\* state updates the provider has queued since its last render
MaxQueuedUpdates == 2
\* calls to the onSubmit collaborator in one session
MaxCalls == 2
\* entries the coding collaborator reports in one session
MaxCodingSubmissions == 1

\* ------------------------------------------------------- program constants
\* violations >= 3 (the violation effect and handleVisibilityChange)
ViolationLimit == 3

\* --------------------------------------------------------------- the tests
\* question.options: the first question offers two options, the others one
Options(questionId) == IF questionId = "q1" THEN {"A", "B"} ELSE {"A"}

\* localStorage.getItem returns null, or a string JSON.parse rejects
NoRecord == [kind |-> "absent"]
Malformed == [kind |-> "malformed"]
NoQuestion == "null"

\* interface Test: the fields the session reads
TestFlat ==
    [_id |-> "flat", hasSections |-> FALSE, sections |-> <<>>,
     questions |-> <<"q1", "q2">>,
     hasCodingSection |-> FALSE, codingQuestions |-> <<>>]

TestSections ==
    [_id |-> "sections", hasSections |-> TRUE,
     sections |-> << <<"q1">>, <<"q2">> >>,
     questions |-> <<>>,
     hasCodingSection |-> FALSE, codingQuestions |-> <<>>]

TestCoding ==
    [_id |-> "coding", hasSections |-> FALSE, sections |-> <<>>,
     questions |-> <<"q1">>,
     hasCodingSection |-> TRUE, codingQuestions |-> <<"c1", "c2">>]

TestCodingOnly ==
    [_id |-> "codingOnly", hasSections |-> FALSE, sections |-> <<>>,
     questions |-> <<>>,
     hasCodingSection |-> TRUE, codingQuestions |-> <<"c1", "c2">>]

Tests == {TestFlat, TestSections, TestCoding, TestCodingOnly}

\* two sections of three questions, no coding section
TestTwoByThree ==
    [_id |-> "twoByThree", hasSections |-> TRUE,
     sections |-> << <<"q1", "q2", "q3">>, <<"q4", "q5", "q6">> >>,
     questions |-> <<>>,
     hasCodingSection |-> FALSE, codingQuestions |-> <<>>]

\* ----------------------------------------------------- JavaScript objects
\* An object used as a map is a function on the set of its keys.
EmptyMap == <<>>

Put(m, k, v) == [x \in (DOMAIN m) \cup {k} |-> IF x = k THEN v ELSE m[x]]

Delete(m, k) == [x \in (DOMAIN m) \ {k} |-> m[x]]

\* answers[k] and markedForReview[k] read for their truth value: a missing key
\* is undefined, which is falsy, as are the empty string and false
HasAnswer(answers, k) == k \in DOMAIN answers /\ answers[k] # ""

IsMarked(markedForReview, k) == k \in DOMAIN markedForReview /\ markedForReview[k]

SeqToSet(s) == {s[i] : i \in 1..Len(s)}

RECURSIVE Flatten(_)
Flatten(ss) == IF ss = <<>> THEN <<>> ELSE Head(ss) \o Flatten(Tail(ss))

RECURSIVE SelectSeqIn(_, _)
SelectSeqIn(s, keep) ==
    IF s = <<>> THEN <<>>
    ELSE (IF Head(s) \in keep THEN <<Head(s)>> ELSE <<>>) \o SelectSeqIn(Tail(s), keep)

\* test.hasCodingSection && test.codingQuestions && test.codingQuestions.length > 0
HasCodingSection(t) == t.hasCodingSection /\ Len(t.codingQuestions) > 0

\* test.hasSections && test.sections ? test.sections.flatMap(s => s.questions) : test.questions
AllQuestions(t) == IF t.hasSections THEN Flatten(t.sections) ELSE t.questions

\* --------------------------------------------------------------- the state
VARIABLES
    test,          \* the test prop
    st,            \* the component's React state, one field per useState
    life,          \* "constructed", "mounted", "exited" (onExit called), "unloaded"
    timerClosure,  \* what the interval callback's handleAutoSubmit closes over
    calls,         \* the calls made to the onSubmit collaborator, in order:
                   \* the function that awaits each, and how it has settled
    lastCall,      \* the arguments onSubmit was called with in the step just
                   \* taken; NoCall when that step did not call it
    storage,       \* localStorage["test_progress_" + test._id]
    cnt            \* history counters, read by the properties only

vars == <<test, st, life, timerClosure, calls, lastCall, storage, cnt>>

\* before the test is started there is no interval
NoClosure == [kind |-> "none"]

\* the useState initial values
InitialState ==
    [showInstructions |-> TRUE,
     agreedToTerms |-> FALSE,
     currentSectionIndex |-> 0,
     currentQuestionIndex |-> 0,
     answers |-> EmptyMap,
     markedForReview |-> EmptyMap,
     visitedQuestions |-> {},
     timeLeft |-> InitialTimeLeft,
     submitting |-> FALSE,
     showSectionComplete |-> FALSE,
     showSubmitConfirm |-> FALSE,
     showCodingSection |-> FALSE,
     mcqCompleted |-> FALSE,
     selectedCodingQuestionId |-> NoQuestion,
     codingSubmissions |-> <<>>,
     violations |-> 0]

InitialCounters ==
    [expiries |-> 0,          \* expiry branches taken by the interval callback
     clockJumps |-> 0,        \* forced jumps to coding made by handleAutoSubmit
     violationJumps |-> 0,    \* forced jumps to coding made by autoSubmitTest
     userJumps |-> 0,         \* jumps to coding made by the user or by start
     violationTriggers |-> 0, \* runs of autoSubmitTest
     crossedPastMcq |-> FALSE,\* violations reached the limit while mcqCompleted
     removes |-> 0,           \* localStorage.removeItem calls
     loads |-> 0,             \* localStorage.getItem calls
     exits |-> 0]             \* onExit calls

\* ------------------------------------------------------------- navigation
\* getCurrentSection / getCurrentSectionQuestions
getCurrentSectionQuestions(t, s) ==
    IF t.hasSections /\ s.currentSectionIndex + 1 <= Len(t.sections)
    THEN t.sections[s.currentSectionIndex + 1]
    ELSE t.questions

\* getCurrentQuestion: questions[currentQuestionIndex] || null
getCurrentQuestion(t, s) ==
    LET questions == getCurrentSectionQuestions(t, s)
    IN  IF s.currentQuestionIndex + 1 \in 1..Len(questions)
        THEN questions[s.currentQuestionIndex + 1]
        ELSE NoQuestion

\* an entry to coding that flips the two flags instead of setting them
EnterCodingToggling(t, s) ==
    [s EXCEPT !.mcqCompleted = ~@,
              !.showCodingSection = ~@,
              !.selectedCodingQuestionId = t.codingQuestions[1]]

\* setMcqCompleted(true); setShowCodingSection(true);
\* setSelectedCodingQuestionId(test.codingQuestions[0]._id)
EnterCoding(t, s) ==
    [s EXCEPT !.mcqCompleted = TRUE,
              !.showCodingSection = TRUE,
              !.selectedCodingQuestionId = t.codingQuestions[1]]


\* ----------------------------------------------------- the answer ledger
\* handleAnswerSelect: setAnswers(prev => ({ ...prev, [questionId]: answer }))
handleAnswerSelect(s, questionId, answer) ==
    [s EXCEPT !.answers = Put(@, questionId, answer)]

\* a handleClearResponse that deletes the answer and keeps the review mark
handleClearResponseKeepingMark(t, s) ==
    LET currentQ == getCurrentQuestion(t, s)
    IN  IF currentQ = NoQuestion THEN s
        ELSE [s EXCEPT !.answers = Delete(@, currentQ)]

\* handleClearResponse: deletes the current question from answers and markedForReview
handleClearResponse(t, s) ==
    LET currentQ == getCurrentQuestion(t, s)
    IN  IF currentQ = NoQuestion THEN s
        ELSE [s EXCEPT !.answers = Delete(@, currentQ),
                       !.markedForReview = Delete(@, currentQ)]

\* handleMarkForReview: [currentQ._id]: !prev[currentQ._id]
handleMarkForReview(t, s) ==
    LET currentQ == getCurrentQuestion(t, s)
    IN  IF currentQ = NoQuestion THEN s
        ELSE [s EXCEPT !.markedForReview = Put(@, currentQ, ~IsMarked(@, currentQ))]

\* a handleSaveAndNext that moves on without marking the question visited
handleSaveAndNextWithoutVisit(t, s) ==
    LET questions == getCurrentSectionQuestions(t, s)
    IN  IF s.currentQuestionIndex < Len(questions) - 1
        THEN [s EXCEPT !.currentQuestionIndex = s.currentQuestionIndex + 1]
        ELSE [s EXCEPT !.showSectionComplete = TRUE]

\* handleSaveAndNext
handleSaveAndNext(t, s) ==
    LET questions == getCurrentSectionQuestions(t, s)
    IN  IF s.currentQuestionIndex < Len(questions) - 1
        THEN LET nextIndex == s.currentQuestionIndex + 1
             IN  [s EXCEPT !.currentQuestionIndex = nextIndex,
                           !.visitedQuestions = @ \cup {questions[nextIndex + 1]}]
        ELSE [s EXCEPT !.showSectionComplete = TRUE]

\* handleMarkForReviewAndNext: handleMarkForReview(); handleSaveAndNext();
handleMarkForReviewAndNext(t, s) == handleSaveAndNext(t, handleMarkForReview(t, s))

\* handleNavigateToQuestion
handleNavigateToQuestion(t, s, index) ==
    LET questions == getCurrentSectionQuestions(t, s)
    IN  [s EXCEPT !.currentQuestionIndex = index,
                  !.visitedQuestions = @ \cup {questions[index + 1]}]

\* the branch handleNextSection takes
NextSectionBranch(t, s) ==
    IF t.hasSections /\ s.currentSectionIndex < Len(t.sections) - 1 THEN "next"
    ELSE IF HasCodingSection(t) THEN "coding"
    ELSE "submit"

\* a handleNextSection that starts over at the first section after the last one
handleNextSectionWrapping(t, s) ==
    IF t.hasSections
    THEN LET next == (s.currentSectionIndex + 1) % Len(t.sections)
         IN  [s EXCEPT !.currentSectionIndex = next,
                       !.currentQuestionIndex = 0,
                       !.showSectionComplete = FALSE,
                       !.visitedQuestions = @ \cup {t.sections[next + 1][1]}]
    ELSE IF HasCodingSection(t)
    THEN [EnterCoding(t, s) EXCEPT !.showSectionComplete = FALSE]
    ELSE [s EXCEPT !.showSubmitConfirm = TRUE]

\* handleNextSection
handleNextSection(t, s) ==
    IF NextSectionBranch(t, s) = "next"
    THEN LET nextSectionQuestions == t.sections[s.currentSectionIndex + 2]
         IN  [s EXCEPT !.currentSectionIndex = s.currentSectionIndex + 1,
                       !.currentQuestionIndex = 0,
                       !.showSectionComplete = FALSE,
                       !.visitedQuestions =
                           IF Len(nextSectionQuestions) > 0
                           THEN @ \cup {nextSectionQuestions[1]} ELSE @]
    ELSE IF NextSectionBranch(t, s) = "coding"
    THEN [EnterCoding(t, s) EXCEPT !.showSectionComplete = FALSE]
    ELSE [s EXCEPT !.showSubmitConfirm = TRUE]

\* getSectionCounts
getSectionCounts(t, s) ==
    LET questions == SeqToSet(getCurrentSectionQuestions(t, s))
    IN  [answered |-> Cardinality({q \in questions :
                         HasAnswer(s.answers, q) /\ ~IsMarked(s.markedForReview, q)}),
         notAnswered |-> Cardinality({q \in questions :
                         ~HasAnswer(s.answers, q) /\ q \in s.visitedQuestions}),
         marked |-> Cardinality({q \in questions : IsMarked(s.markedForReview, q)}),
         notVisited |-> Cardinality({q \in questions : q \notin s.visitedQuestions})]

\* the counts of getSectionCounts whose filter a question passes
ClassesOf(s, q) ==
    {c \in {"answered", "notAnswered", "marked", "notVisited"} :
        \/ c = "answered" /\ HasAnswer(s.answers, q) /\ ~IsMarked(s.markedForReview, q)
        \/ c = "notAnswered" /\ ~HasAnswer(s.answers, q) /\ q \in s.visitedQuestions
        \/ c = "marked" /\ IsMarked(s.markedForReview, q)
        \/ c = "notVisited" /\ q \notin s.visitedQuestions}

\* ----------------------------------------------------------- the payloads
\* handleSubmit: allQuestions.map(question => ({ questionId, selectedAnswer:
\* answers[question._id] || '', timeSpent: 0 }))
SubmissionAnswers(t, answers) ==
    LET allQuestions == AllQuestions(t)
    IN  [i \in 1..Len(allQuestions) |->
            [questionId |-> allQuestions[i],
             selectedAnswer |-> IF HasAnswer(answers, allQuestions[i])
                                THEN answers[allQuestions[i]] ELSE "",
             timeSpent |-> 0]]

\* autoSubmitTest: Object.entries(answers).map(([questionId, selectedAnswer]) =>
\* ({ questionId, selectedAnswer })); the entries are listed in the order of the
\* test's questions (the insertion order of the keys is not kept by the model)
AnswerEntries(t, answers) ==
    LET keys == SelectSeqIn(AllQuestions(t), DOMAIN answers)
    IN  [i \in 1..Len(keys) |->
            [questionId |-> keys[i], selectedAnswer |-> answers[keys[i]]]]

\* a call of onSubmit awaited by origin: handleSubmit run by the user ("user")
\* or by the interval callback ("clock"), or autoSubmitTest ("violation")
NewCall(origin) == [origin |-> origin, status |-> "pending"]

\* Date.now() - startTime.getTime() at the moment of a call, in whole seconds
ElapsedSeconds == {59, 125}

\* handleSubmit: Math.floor((Date.now() - startTime.getTime()) / 1000 / 60)
handleSubmitTimeSpent(elapsed) == elapsed \div 60

\* autoSubmitTest: Math.floor((new Date().getTime() - startTime.getTime()) / 1000)
autoSubmitTestTimeSpent(elapsed) == elapsed

\* onSubmit(answers, timeSpent, codingSubmissions); elapsed is the reading of
\* the wall clock the call was made at, kept for the properties
CallArguments(answerArray, timeSpent, codingSubmissions, elapsed) ==
    [answers |-> answerArray, timeSpent |-> timeSpent,
     codingSubmissions |-> codingSubmissions, elapsed |-> elapsed]

NoCall == [kind |-> "none"]

\* ---------------------------------------------------------- the checkpoint
\* a handleBeforeUnload that leaves violations out of the record
SnapshotWithoutViolations(s) ==
    [answers |-> s.answers,
     markedForReview |-> s.markedForReview,
     visitedQuestions |-> s.visitedQuestions,
     currentSectionIndex |-> s.currentSectionIndex,
     currentQuestionIndex |-> s.currentQuestionIndex,
     timeLeft |-> s.timeLeft,
     mcqCompleted |-> s.mcqCompleted,
     selectedCodingQuestionId |-> s.selectedCodingQuestionId,
     codingSubmissions |-> s.codingSubmissions]

\* the object handleBeforeUnload writes
Snapshot(s) ==
    [answers |-> s.answers,
     markedForReview |-> s.markedForReview,
     visitedQuestions |-> s.visitedQuestions,
     currentSectionIndex |-> s.currentSectionIndex,
     currentQuestionIndex |-> s.currentQuestionIndex,
     violations |-> s.violations,
     timeLeft |-> s.timeLeft,
     mcqCompleted |-> s.mcqCompleted,
     selectedCodingQuestionId |-> s.selectedCodingQuestionId,
     codingSubmissions |-> s.codingSubmissions]

\* a hook that saves whatever its props say
useTestPersistenceSaveUnguarded(isActive, isSubmitting, testData, stored) == testData

\* useTestPersistence: what localStorage holds after the hook's
\* handleBeforeUnload or its saveProgressDirectly has run with these props
useTestPersistenceSave(isActive, isSubmitting, testData, stored) ==
    IF isActive /\ ~isSubmitting THEN testData ELSE stored

\* progress.field || fallback; falsy holds the falsy values of the field's type
OrDefault(progress, field, falsy, fallback) ==
    IF field \in DOMAIN progress /\ progress[field] \notin falsy
    THEN progress[field] ELSE fallback

\* the fields the restore effect reads from the record
RestoredFields ==
    {"answers", "markedForReview", "visitedQuestions", "currentSectionIndex",
     "currentQuestionIndex", "violations", "mcqCompleted",
     "selectedCodingQuestionId"}

\* a restore effect that takes a record only when it has every field
RestoreProgressAllOrNothing(s, saved) ==
    IF saved = NoRecord \/ saved = Malformed THEN s
    ELSE IF ~(RestoredFields \subseteq DOMAIN saved) THEN s
    ELSE [s EXCEPT
            !.answers = saved.answers,
            !.markedForReview = saved.markedForReview,
            !.visitedQuestions = saved.visitedQuestions,
            !.currentSectionIndex = saved.currentSectionIndex,
            !.currentQuestionIndex = saved.currentQuestionIndex,
            !.violations = saved.violations,
            !.mcqCompleted = saved.mcqCompleted,
            !.selectedCodingQuestionId = saved.selectedCodingQuestionId]

\* a restore effect that also takes the remaining time from the record
RestoreProgressWithTimeLeft(s, saved) ==
    IF saved = NoRecord \/ saved = Malformed THEN s
    ELSE [s EXCEPT
            !.answers = OrDefault(saved, "answers", {}, EmptyMap),
            !.markedForReview = OrDefault(saved, "markedForReview", {}, EmptyMap),
            !.visitedQuestions = OrDefault(saved, "visitedQuestions", {}, {}),
            !.currentSectionIndex = OrDefault(saved, "currentSectionIndex", {0}, 0),
            !.currentQuestionIndex = OrDefault(saved, "currentQuestionIndex", {0}, 0),
            !.violations = OrDefault(saved, "violations", {0}, 0),
            !.timeLeft = OrDefault(saved, "timeLeft", {0}, s.timeLeft),
            !.mcqCompleted = OrDefault(saved, "mcqCompleted", {FALSE}, FALSE),
            !.selectedCodingQuestionId =
                OrDefault(saved, "selectedCodingQuestionId", {"", NoQuestion}, NoQuestion)]

\* the restore effect: JSON.parse and eight setters; a parse error is caught
RestoreProgress(s, saved) ==
    IF saved = NoRecord \/ saved = Malformed THEN s
    ELSE [s EXCEPT
            !.answers = OrDefault(saved, "answers", {}, EmptyMap),
            !.markedForReview = OrDefault(saved, "markedForReview", {}, EmptyMap),
            !.visitedQuestions = OrDefault(saved, "visitedQuestions", {}, {}),
            !.currentSectionIndex = OrDefault(saved, "currentSectionIndex", {0}, 0),
            !.currentQuestionIndex = OrDefault(saved, "currentQuestionIndex", {0}, 0),
            !.violations = OrDefault(saved, "violations", {0}, 0),
            !.mcqCompleted = OrDefault(saved, "mcqCompleted", {FALSE}, FALSE),
            !.selectedCodingQuestionId =
                OrDefault(saved, "selectedCodingQuestionId", {"", NoQuestion}, NoQuestion)]

\* records found in localStorage at mount: snapshots earlier sessions of the
\* same test wrote on page unload
SavedRecords(t) ==
    IF t = TestCoding
    THEN {Snapshot([InitialState EXCEPT
              !.showInstructions = FALSE, !.agreedToTerms = TRUE,
              !.answers = Put(EmptyMap, "q1", "B"),
              !.visitedQuestions = {"q1"},
              !.timeLeft = 1,
              !.mcqCompleted = TRUE,
              !.showCodingSection = TRUE,
              !.selectedCodingQuestionId = "c2",
              !.violations = 1])}
    ELSE {}

\* a record an earlier session of the flat test wrote while its second
\* question was displayed
ResumedRecords(t) ==
    IF t = TestFlat
    THEN {Snapshot([InitialState EXCEPT
              !.showInstructions = FALSE, !.agreedToTerms = TRUE,
              !.answers = Put(EmptyMap, "q1", "A"),
              !.visitedQuestions = {"q1", "q2"},
              !.currentQuestionIndex = 1,
              !.timeLeft = 1,
              !.violations = 2])}
    ELSE SavedRecords(t)

\* a record an earlier session of the sectioned test wrote in its second
\* section, with a review mark on the first question
SectionRecords(t) ==
    IF t = TestSections
    THEN {Snapshot([InitialState EXCEPT
              !.showInstructions = FALSE, !.agreedToTerms = TRUE,
              !.answers = Put(EmptyMap, "q1", "A"),
              !.markedForReview = Put(EmptyMap, "q1", TRUE),
              !.visitedQuestions = {"q1", "q2"},
              !.currentSectionIndex = 1,
              !.timeLeft = 1,
              !.violations = 1])}
    ELSE ResumedRecords(t)

\* records of older versions and records cut short: a record an earlier
\* session wrote, with any of its fields missing
PartialRecords(t) ==
    {[field \in fields |-> full[field]] :
        full \in SectionRecords(t), fields \in SUBSET RestoredFields}

\* a record an earlier session of the test with a coding section wrote in
\* its coding phase, after the coding interface had reported a submission
CodingRecords ==
    {Snapshot([InitialState EXCEPT
         !.showInstructions = FALSE, !.agreedToTerms = TRUE,
         !.answers = Put(EmptyMap, "q1", "A"),
         !.visitedQuestions = {"q1"},
         !.timeLeft = 1,
         !.mcqCompleted = TRUE,
         !.showCodingSection = TRUE,
         !.selectedCodingQuestionId = "c1",
         !.codingSubmissions = <<[submissionId |-> 1, score |-> 100]>>])}

\* --------------------------------------------------------------- the views
Mounted == life = "mounted"

\* the guard of the violation effect (line 732); the effect is due when it holds
ViolationEffectDue ==
    /\ Mounted
    /\ st.violations >= ViolationLimit
    /\ ~st.showInstructions
    /\ ~st.submitting
    /\ ~st.mcqCompleted

\* an event is handled once the effects of the last render have run
Ready == Mounted /\ ~ViolationEffectDue

\* if (showInstructions) return <instructions>
InstructionsView == Ready /\ st.showInstructions

\* if (showCodingSection) return <coding view>
CodingView == Ready /\ ~st.showInstructions /\ st.showCodingSection

\* the last return: the MCQ view, rendered when there is a current question
McqView ==
    /\ Ready /\ ~st.showInstructions /\ ~st.showCodingSection
    /\ getCurrentQuestion(test, st) # NoQuestion

\* the two dialogs of the MCQ view cover it (fixed inset-0, z-50); the submit
\* dialog is rendered after the section dialog and so lies on top of it
McqControls == McqView /\ ~st.showSectionComplete /\ ~st.showSubmitConfirm
SectionCompleteDialog == McqView /\ st.showSectionComplete /\ ~st.showSubmitConfirm
SubmitConfirmDialog == McqView /\ st.showSubmitConfirm

\* a handler that only sets component state
SetState(s) ==
    /\ st' = s
    /\ lastCall' = NoCall
    /\ UNCHANGED <<test, life, timerClosure, calls, storage, cnt>>

\* ----------------------------------------------------------------- mount
Init ==
    /\ test \in Tests
    /\ st = InitialState
    /\ life = "constructed"
    /\ timerClosure = NoClosure
    /\ calls = <<>>
    /\ lastCall = NoCall
    /\ storage \in {NoRecord} \cup SavedRecords(test)
    /\ cnt = InitialCounters

\* a restore effect without the showInstructions guard: it loads the record
\* again in the render that follows the start
RestoreEffectAlsoAfterStart ==
    /\ \/ life = "constructed" /\ life' = "mounted"
       \/ Mounted /\ ~st.showInstructions /\ cnt.loads = 1 /\ life' = life
    /\ st' = RestoreProgress(st, storage)
    /\ cnt' = [cnt EXCEPT !.loads = @ + 1]
    /\ lastCall' = NoCall
    /\ UNCHANGED <<test, timerClosure, calls, storage>>

\* the restore effect, run once at mount (showInstructions is true)
RestoreEffect ==
    /\ life = "constructed"
    /\ life' = "mounted"
    /\ st' = RestoreProgress(st, storage)
    /\ cnt' = [cnt EXCEPT !.loads = @ + 1]
    /\ lastCall' = NoCall
    /\ UNCHANGED <<test, timerClosure, calls, storage>>

\* the checkbox of the instructions view
SetAgreedToTerms ==
    /\ InstructionsView
    /\ \E checked \in BOOLEAN : SetState([st EXCEPT !.agreedToTerms = checked])

\* Cancel in the instructions view: onClick={onExit}
CancelTest ==
    /\ InstructionsView
    /\ life' = "exited"
    /\ cnt' = [cnt EXCEPT !.exits = @ + 1]
    /\ lastCall' = NoCall
    /\ UNCHANGED <<test, st, timerClosure, calls, storage>>

\* a handleStartTest without the agreedToTerms check
handleStartTestWithoutTerms ==
    /\ InstructionsView
    /\ LET questions == getCurrentSectionQuestions(test, st)
           started == [st EXCEPT !.showInstructions = FALSE]
           next == IF Len(questions) = 0
                   THEN IF HasCodingSection(test) THEN EnterCoding(test, started)
                        ELSE started
                   ELSE [started EXCEPT !.visitedQuestions = {questions[1]}]
       IN  /\ st' = next
           /\ timerClosure' =
                [submitting |-> next.submitting,
                 mcqCompleted |-> next.mcqCompleted,
                 answers |-> next.answers,
                 codingSubmissions |-> next.codingSubmissions]
           /\ cnt' = IF Len(questions) = 0 /\ HasCodingSection(test)
                     THEN [cnt EXCEPT !.userJumps = @ + 1] ELSE cnt
    /\ lastCall' = NoCall
    /\ UNCHANGED <<test, life, calls, storage>>

\* handleStartTest; the timer effect of the render that follows captures
\* handleAutoSubmit and, with it, the state of that render
handleStartTest ==
    /\ InstructionsView
    /\ LET questions == getCurrentSectionQuestions(test, st)
           started == [st EXCEPT !.showInstructions = FALSE]
           next == IF ~st.agreedToTerms THEN st
                   ELSE IF Len(questions) = 0
                   THEN IF HasCodingSection(test) THEN EnterCoding(test, started)
                        ELSE started
                   ELSE [started EXCEPT !.visitedQuestions = {questions[1]}]
       IN  /\ st' = next
           /\ timerClosure' =
                IF ~st.agreedToTerms THEN timerClosure
                ELSE [submitting |-> next.submitting,
                      mcqCompleted |-> next.mcqCompleted,
                      answers |-> next.answers,
                      codingSubmissions |-> next.codingSubmissions]
           /\ cnt' = IF st.agreedToTerms /\ Len(questions) = 0 /\ HasCodingSection(test)
                     THEN [cnt EXCEPT !.userJumps = @ + 1] ELSE cnt
    /\ lastCall' = NoCall
    /\ UNCHANGED <<test, life, calls, storage>>

\* ------------------------------------------------------- final submission
\* document.fullscreenElement is null or exitFullscreen resolves ("done"),
\* or exitFullscreen rejects
ExitFullscreenOutcomes == {"done", "rejected"}

\* a catch block that forgets setSubmitting(false)
handleSubmitCatchKeepsGuard(s) == [s EXCEPT !.showSubmitConfirm = FALSE]

\* a catch block that leaves the submit dialog open
handleSubmitCatchKeepsDialog(s) == [s EXCEPT !.submitting = FALSE]

\* handleSubmit's catch block
handleSubmitCatch(s) == [s EXCEPT !.submitting = FALSE, !.showSubmitConfirm = FALSE]

\* handleSubmit after onSubmit has resolved
handleSubmitDone(s) == [s EXCEPT !.showSubmitConfirm = FALSE, !.submitting = FALSE]

\* autoSubmitTest's catch block
autoSubmitTestCatch(s) == [s EXCEPT !.submitting = FALSE]

\* autoSubmitTest after onSubmit has resolved
autoSubmitTestDone(s) == [s EXCEPT !.submitting = FALSE]

\* a submission that never removes the record
ClearsCheckpointNever(outcome) == FALSE

\* localStorage.removeItem follows the awaited onSubmit inside the try block
ClearsCheckpoint(outcome) == outcome = "resolved"

\* handleSubmit up to its await of onSubmit, run with the closure c on state s
handleSubmit(s, c, origin) ==
    IF c.submitting
    THEN st' = s /\ calls' = calls /\ lastCall' = NoCall
    ELSE \E fullscreen \in ExitFullscreenOutcomes :
            IF fullscreen = "rejected"
            THEN /\ st' = handleSubmitCatch([s EXCEPT !.submitting = TRUE])
                 /\ calls' = calls /\ lastCall' = NoCall
            ELSE /\ Len(calls) < MaxCalls
                 /\ st' = [s EXCEPT !.submitting = TRUE]
                 /\ calls' = Append(calls, NewCall(origin))
                 /\ \E elapsed \in ElapsedSeconds :
                      lastCall' = CallArguments(SubmissionAnswers(test, c.answers),
                                                handleSubmitTimeSpent(elapsed),
                                                c.codingSubmissions, elapsed)

\* the closure of the latest render
CurrentClosure ==
    [submitting |-> st.submitting,
     mcqCompleted |-> st.mcqCompleted,
     answers |-> st.answers,
     codingSubmissions |-> st.codingSubmissions]

\* a handleAutoSubmit without the coding-section check
handleAutoSubmitAlwaysSubmits(t, c) == IF c.submitting THEN "return" ELSE "submit"

\* the branch handleAutoSubmit takes, run with the closure c
handleAutoSubmit(t, c) ==
    IF c.submitting THEN "return"
    ELSE IF ~c.mcqCompleted /\ HasCodingSection(t) THEN "coding"
    ELSE "submit"

\* onSubmit resolves or rejects; the rest of the async function that awaited it
\* runs, also after the component has been unmounted
SubmitSettles ==
    /\ life = "exited" \/ Ready
    /\ \E i \in 1..Len(calls), outcome \in {"resolved", "rejected"} :
        /\ calls[i].status = "pending"
        /\ calls' = [calls EXCEPT ![i].status = outcome]
        /\ storage' = IF ClearsCheckpoint(outcome) THEN NoRecord ELSE storage
        /\ cnt' = [cnt EXCEPT
                     !.removes = IF ClearsCheckpoint(outcome) THEN @ + 1 ELSE @,
                     !.exits = IF outcome = "resolved" THEN @ + 1 ELSE @]
        /\ st' = IF ~Mounted THEN st
                 ELSE IF calls[i].origin = "violation"
                 THEN IF outcome = "resolved"
                      THEN autoSubmitTestDone(st) ELSE autoSubmitTestCatch(st)
                 ELSE IF outcome = "resolved"
                      THEN handleSubmitDone(st) ELSE handleSubmitCatch(st)
        /\ life' = IF outcome = "resolved" THEN "exited" ELSE life
    /\ lastCall' = NoCall
    /\ UNCHANGED <<test, timerClosure>>

\* ---------------------------------------------------- clock and violations
\* an interval callback that goes on subtracting at zero and never calls
\* handleAutoSubmit
TickWithoutFloor ==
    /\ Ready /\ ~st.showInstructions
    /\ st.timeLeft >= 0
    /\ st' = [st EXCEPT !.timeLeft = @ - 1]
    /\ lastCall' = NoCall
    /\ UNCHANGED <<test, life, timerClosure, calls, storage, cnt>>

\* the interval callback: setTimeLeft(prev => ...)
Tick ==
    /\ Ready /\ ~st.showInstructions
    /\ IF st.timeLeft <= 1
       THEN /\ LET s0 == [st EXCEPT !.timeLeft = 0]
                   branch == handleAutoSubmit(test, timerClosure)
                   counted == cnt.expiries < MaxExpiries
               IN  /\ cnt' = [cnt EXCEPT
                                !.expiries = IF counted THEN @ + 1 ELSE @,
                                !.clockJumps = IF counted /\ branch = "coding"
                                               THEN @ + 1 ELSE @]
                   /\ IF branch = "return"
                      THEN st' = s0 /\ calls' = calls /\ lastCall' = NoCall
                      ELSE IF branch = "coding"
                      THEN st' = EnterCoding(test, s0) /\ calls' = calls /\ lastCall' = NoCall
                      ELSE handleSubmit(s0, timerClosure, "clock")
       ELSE /\ st' = [st EXCEPT !.timeLeft = @ - 1]
            /\ calls' = calls /\ lastCall' = NoCall /\ cnt' = cnt
    /\ UNCHANGED <<test, life, timerClosure, storage>>

\* a listener that starts counting again once the limit has been reached
handleVisibilityChangeResetting ==
    /\ Ready /\ ~st.showInstructions
    /\ st.violations < MaxViolations
    /\ st' = [st EXCEPT !.violations = IF @ >= ViolationLimit THEN 0 ELSE @ + 1]
    /\ cnt' = [cnt EXCEPT !.crossedPastMcq =
                 @ \/ (st.violations + 1 = ViolationLimit /\ st.mcqCompleted)]
    /\ lastCall' = NoCall
    /\ UNCHANGED <<test, life, timerClosure, calls, storage>>

\* handleVisibilityChange with document.hidden
handleVisibilityChange ==
    /\ Ready /\ ~st.showInstructions
    /\ st.violations < MaxViolations
    /\ st' = [st EXCEPT !.violations = @ + 1]
    /\ cnt' = [cnt EXCEPT !.crossedPastMcq =
                 @ \/ (st.violations + 1 = ViolationLimit /\ st.mcqCompleted)]
    /\ lastCall' = NoCall
    /\ UNCHANGED <<test, life, timerClosure, calls, storage>>

\* the violation effect's autoSubmitTest, up to its await of onSubmit
autoSubmitTest ==
    /\ ViolationEffectDue
    /\ IF HasCodingSection(test)
       THEN /\ st' = [EnterCoding(test, st) EXCEPT !.submitting = FALSE]
            /\ calls' = calls /\ lastCall' = NoCall
            /\ cnt' = [cnt EXCEPT !.violationTriggers = @ + 1,
                                  !.violationJumps = @ + 1]
       ELSE /\ Len(calls) < MaxCalls
            /\ st' = [st EXCEPT !.submitting = TRUE]
            /\ calls' = Append(calls, NewCall("violation"))
            /\ \E elapsed \in ElapsedSeconds :
                 lastCall' = CallArguments(AnswerEntries(test, st.answers),
                                           autoSubmitTestTimeSpent(elapsed),
                                           st.codingSubmissions, elapsed)
            /\ cnt' = [cnt EXCEPT !.violationTriggers = @ + 1]
    /\ UNCHANGED <<test, life, timerClosure, storage>>

\* ----------------------------------------------------------- the MCQ view
SelectAnswer ==
    /\ McqControls
    /\ \E answer \in Options(getCurrentQuestion(test, st)) :
         SetState(handleAnswerSelect(st, getCurrentQuestion(test, st), answer))

\* Clear Response, disabled while the current question has no answer
ClearResponse ==
    /\ McqControls
    /\ HasAnswer(st.answers, getCurrentQuestion(test, st))
    /\ SetState(handleClearResponse(test, st))

MarkForReviewAndNext ==
    /\ McqControls
    /\ SetState(handleMarkForReviewAndNext(test, st))

SaveAndNext ==
    /\ McqControls
    /\ SetState(handleSaveAndNext(test, st))

\* the palette buttons, and Previous (index = currentQuestionIndex - 1)
NavigateToQuestion ==
    /\ McqControls
    /\ \E index \in 0..(Len(getCurrentSectionQuestions(test, st)) - 1) :
         SetState(handleNavigateToQuestion(test, st, index))

\* the header button: 'Next Section (Coding)' or 'Submit Test'
FinishMcq ==
    /\ McqControls
    /\ IF HasCodingSection(test)
       THEN st' = EnterCoding(test, st) /\ cnt' = [cnt EXCEPT !.userJumps = @ + 1]
       ELSE st' = [st EXCEPT !.showSubmitConfirm = TRUE] /\ cnt' = cnt
    /\ lastCall' = NoCall
    /\ UNCHANGED <<test, life, timerClosure, calls, storage>>

\* Review Answers
ReviewAnswers ==
    /\ SectionCompleteDialog
    /\ SetState([st EXCEPT !.showSectionComplete = FALSE])

\* Proceed to Next Section / Finish MCQ Section
ProceedSection ==
    /\ SectionCompleteDialog
    /\ st' = handleNextSection(test, st)
    /\ cnt' = IF NextSectionBranch(test, st) = "coding"
              THEN [cnt EXCEPT !.userJumps = @ + 1] ELSE cnt
    /\ lastCall' = NoCall
    /\ UNCHANGED <<test, life, timerClosure, calls, storage>>

\* Cancel in the submit dialog, disabled while submitting
CancelSubmit ==
    /\ SubmitConfirmDialog /\ ~st.submitting
    /\ SetState([st EXCEPT !.showSubmitConfirm = FALSE])

\* Submit Final in the submit dialog, disabled while submitting
ConfirmSubmit ==
    /\ SubmitConfirmDialog /\ ~st.submitting
    /\ handleSubmit(st, CurrentClosure, "user")
    /\ UNCHANGED <<test, life, timerClosure, storage, cnt>>

\* -------------------------------------------------------- the coding view
\* Submit Test in the coding view
CodingRequestSubmit ==
    /\ CodingView
    /\ SetState([st EXCEPT !.showSubmitConfirm = TRUE])

SelectCodingQuestion ==
    /\ CodingView
    /\ \E i \in 1..Len(test.codingQuestions) :
         SetState([st EXCEPT !.selectedCodingQuestionId = test.codingQuestions[i]])

Scores == {0, 100}

\* handleCodingSubmit, called by CodingInterface for the selected question
handleCodingSubmit ==
    /\ CodingView
    /\ st.selectedCodingQuestionId # NoQuestion
    /\ Len(st.codingSubmissions) < MaxCodingSubmissions
    /\ \E score \in Scores :
         SetState([st EXCEPT !.codingSubmissions =
             Append(@, [submissionId |-> Len(@) + 1, score |-> score])])

\* ------------------------------------------------------------ page unload
\* handleBeforeUnload; the page and the session end with it
handleBeforeUnload ==
    /\ Mounted
    /\ life' = "unloaded"
    /\ storage' = IF ~st.showInstructions /\ ~st.submitting
                  THEN Snapshot(st) ELSE storage
    /\ lastCall' = NoCall
    /\ UNCHANGED <<test, st, timerClosure, calls, cnt>>

\* saveProgressDirectly of useTestPersistence, called on demand by a session
\* that hands the hook its state: isActive is "not showing instructions",
\* isSubmitting is submitting, testData is the object handleBeforeUnload writes
saveProgressDirectly ==
    /\ Mounted
    /\ storage' = useTestPersistenceSave(~st.showInstructions, st.submitting,
                                         Snapshot(st), storage)
    /\ lastCall' = NoCall
    /\ UNCHANGED <<test, st, life, timerClosure, calls, cnt>>

\* ------------------------------------------------------ the specification
Next ==
    \/ RestoreEffect
    \/ SetAgreedToTerms
    \/ CancelTest
    \/ handleStartTest
    \/ Tick
    \/ handleVisibilityChange
    \/ autoSubmitTest
    \/ SubmitSettles
    \/ SelectAnswer
    \/ ClearResponse
    \/ MarkForReviewAndNext
    \/ SaveAndNext
    \/ NavigateToQuestion
    \/ FinishMcq
    \/ ReviewAnswers
    \/ ProceedSection
    \/ CancelSubmit
    \/ ConfirmSubmit
    \/ CodingRequestSubmit
    \/ SelectCodingQuestion
    \/ handleCodingSubmit
    \/ handleBeforeUnload

Spec == Init /\ [][Next]_vars

\* sessions resumed from a record, and fresh sessions of the coding tests
ResumeInit ==
    /\ test \in {TestFlat, TestCoding, TestCodingOnly}
    /\ st = InitialState
    /\ life = "constructed"
    /\ timerClosure = NoClosure
    /\ calls = <<>>
    /\ lastCall = NoCall
    /\ storage \in IF test = TestFlat THEN ResumedRecords(test)
                   ELSE {NoRecord} \cup ResumedRecords(test)
    /\ cnt = InitialCounters

ResumeSpec == ResumeInit /\ [][Next]_vars

\* one user working through the two-by-three test: answering, marking,
\* moving on and proceeding to the next section
ScenarioInit ==
    /\ test = TestTwoByThree
    /\ st = InitialState
    /\ life = "constructed"
    /\ timerClosure = NoClosure
    /\ calls = <<>>
    /\ lastCall = NoCall
    /\ storage = NoRecord
    /\ cnt = InitialCounters

ScenarioNext ==
    \/ RestoreEffect
    \/ SetAgreedToTerms
    \/ handleStartTest
    \/ SelectAnswer
    \/ MarkForReviewAndNext
    \/ SaveAndNext
    \/ ProceedSection

ScenarioSpec == ScenarioInit /\ [][ScenarioNext]_vars

\* sessions that also save on demand through the persistence hook: the flat
\* test and the test with a coding section, answered, finished and submitted
PersistInit ==
    /\ test \in {TestFlat, TestCoding}
    /\ st = InitialState
    /\ life = "constructed"
    /\ timerClosure = NoClosure
    /\ calls = <<>>
    /\ lastCall = NoCall
    /\ storage \in {NoRecord} \cup SavedRecords(test)
    /\ cnt = InitialCounters

PersistNext ==
    \/ RestoreEffect
    \/ SetAgreedToTerms
    \/ handleStartTest
    \/ SelectAnswer
    \/ SaveAndNext
    \/ ProceedSection
    \/ FinishMcq
    \/ ConfirmSubmit
    \/ SubmitSettles
    \/ handleVisibilityChange
    \/ autoSubmitTest
    \/ handleCodingSubmit
    \/ handleBeforeUnload
    \/ saveProgressDirectly

PersistSpec == PersistInit /\ [][PersistNext]_vars

\* mounts over a partial or malformed record, up to the start of the test
HydrateInit ==
    /\ test \in {TestFlat, TestSections, TestCoding}
    /\ st = InitialState
    /\ life = "constructed"
    /\ timerClosure = NoClosure
    /\ calls = <<>>
    /\ lastCall = NoCall
    /\ storage \in {Malformed} \cup PartialRecords(test)
    /\ cnt = InitialCounters

HydrateNext ==
    \/ RestoreEffect
    \/ SetAgreedToTerms
    \/ CancelTest
    \/ handleStartTest

HydrateSpec == HydrateInit /\ [][HydrateNext]_vars

\* a session of the test with a coding section reloaded in its coding phase
ReloadInit ==
    /\ test = TestCoding
    /\ st = InitialState
    /\ life = "constructed"
    /\ timerClosure = NoClosure
    /\ calls = <<>>
    /\ lastCall = NoCall
    /\ storage \in CodingRecords
    /\ cnt = InitialCounters

ReloadNext ==
    \/ RestoreEffect
    \/ SetAgreedToTerms
    \/ handleStartTest
    \/ SelectAnswer
    \/ FinishMcq
    \/ SelectCodingQuestion
    \/ handleCodingSubmit
    \/ Tick
    \/ handleVisibilityChange
    \/ SubmitSettles
    \/ handleBeforeUnload

ReloadSpec == ReloadInit /\ [][ReloadNext]_vars

\* ------------------------------------------------- the TestResumeProvider
\* TestResumeProvider (src/unnamed/part_000) is a component of its own. In
\* ProviderSpec the variables hold its state: st is its React state, with
\*   savedTests  the map of the last render, which its functions close over,
\*   queued      the map the queued setSavedTests updates lead to,
\*   updates     the number of updates queued since the last render,
\*   deferred    the maps that updaters of clearTestProgress not yet run
\*               will write to localStorage, in queue order;
\* storage is localStorage['testProgress'], the other variables stay as
\* they are.
TestIds == {"t1", "t2"}

\* the TestProgress objects handed to saveTestProgress
Progresses == {"p1", "p2"}

ProviderInitialState ==
    [savedTests |-> EmptyMap, queued |-> EmptyMap, updates |-> 0, deferred |-> <<>>]

\* getTestProgress: savedTests[testId] || null
getTestProgress(testId) ==
    IF testId \in DOMAIN st.savedTests THEN st.savedTests[testId] ELSE NoQuestion

\* saveTestProgress: queues prev => ({ ...prev, [testId]: progress }) and
\* writes { ...savedTests, [testId]: progress } with the map of the last render
saveTestProgress ==
    /\ st.updates < MaxQueuedUpdates
    /\ \E testId \in TestIds, progress \in Progresses :
         /\ st' = [st EXCEPT !.queued = Put(@, testId, progress),
                             !.updates = @ + 1]
         /\ storage' = Put(st.savedTests, testId, progress)
    /\ UNCHANGED <<test, life, timerClosure, calls, lastCall, cnt>>

\* clearTestProgress: the updater deletes the key and writes the result; React
\* runs the updater at once when no update is queued (eager state) or with
\* the next render
clearTestProgress ==
    /\ st.updates < MaxQueuedUpdates
    /\ \E testId \in TestIds, eager \in BOOLEAN :
         LET updated == Delete(st.queued, testId)
         IN  /\ eager => st.updates = 0
             /\ st' = [st EXCEPT !.queued = updated,
                                 !.updates = @ + 1,
                                 !.deferred = IF eager THEN @ ELSE Append(@, updated)]
             /\ storage' = IF eager THEN updated ELSE storage
    /\ UNCHANGED <<test, life, timerClosure, calls, lastCall, cnt>>

\* clearAllProgress: setSavedTests({}) and localStorage.removeItem
clearAllProgress ==
    /\ st.updates < MaxQueuedUpdates
    /\ st' = [st EXCEPT !.queued = EmptyMap, !.updates = @ + 1]
    /\ storage' = NoRecord
    /\ UNCHANGED <<test, life, timerClosure, calls, lastCall, cnt>>

\* the provider renders: the queued updaters run in order, those of
\* clearTestProgress writing their result, and the functions of the new
\* render close over the new map
ProviderRender ==
    /\ st.updates > 0
    /\ st' = [st EXCEPT !.savedTests = st.queued, !.updates = 0, !.deferred = <<>>]
    /\ storage' = IF st.deferred = <<>> THEN storage
                  ELSE st.deferred[Len(st.deferred)]
    /\ UNCHANGED <<test, life, timerClosure, calls, lastCall, cnt>>

ProviderInit ==
    /\ test = TestFlat
    /\ st = ProviderInitialState
    /\ life = "mounted"
    /\ timerClosure = NoClosure
    /\ calls = <<>>
    /\ lastCall = NoCall
    /\ storage = NoRecord
    /\ cnt = InitialCounters

ProviderNext ==
    \/ saveTestProgress
    \/ clearTestProgress
    \/ clearAllProgress
    \/ ProviderRender

ProviderSpec == ProviderInit /\ [][ProviderNext]_vars

\* the interval keeps firing, effects run after their render, and an awaited
\* onSubmit settles
FairSpec ==
    /\ Spec
    /\ WF_vars(Tick)
    /\ WF_vars(autoSubmitTest)
    /\ WF_vars(SubmitSettles)

\* ------------------------------------------------------------- properties
\* the calls of onSubmit made so far by origin, and those still awaited
CallsFrom(origin) == {i \in 1..Len(calls) : calls[i].origin = origin}

PendingCalls == {i \in 1..Len(calls) : calls[i].status = "pending"}

\* a step in which the interval callback takes its expiry branch, as far as
\* these are counted
ExpiryStep == cnt'.expiries = cnt.expiries + 1

\* the step in which an awaited onSubmit rejects
RejectionStep ==
    /\ Len(calls') = Len(calls)
    /\ \E i \in 1..Len(calls) :
         calls[i].status = "pending" /\ calls'[i].status = "rejected"

\* the (questionId, selectedAnswer) pairs of an answers array, in order
AnswerPairs(answerArray) ==
    [i \in DOMAIN answerArray |->
        <<answerArray[i].questionId, answerArray[i].selectedAnswer>>]

\* C1: within a started session currentSectionIndex never decreases, whatever
\* the step (user action, clock tick, hide event, settling submission).
SectionIndexNeverDecreases ==
    [][~st.showInstructions =>
         st'.currentSectionIndex >= st.currentSectionIndex]_vars

\* a started session of a fresh test that has advanced to its second section
SecondSectionReached ==
    /\ ~st.showInstructions /\ Mounted
    /\ storage = NoRecord
    /\ st.currentSectionIndex = 1

\* C2: a clock expiry while mcqCompleted is false in a test with a coding
\* section sets mcqCompleted, shows the coding section and does not call
\* onSubmit.
ExpiryBeforeCodingJumps ==
    [][(ExpiryStep /\ ~st.mcqCompleted /\ HasCodingSection(test)) =>
         /\ st'.mcqCompleted
         /\ st'.showCodingSection
         /\ st'.selectedCodingQuestionId = test.codingQuestions[1]
         /\ calls' = calls
         /\ lastCall' = NoCall]_vars

\* the clock, and nothing else, has moved a session from the MCQs to coding
JumpedByClock ==
    /\ cnt.clockJumps = 1 /\ cnt.userJumps = 0 /\ cnt.violationJumps = 0
    /\ st.mcqCompleted /\ st.showCodingSection
    /\ st.timeLeft = 0
    /\ calls = <<>>

\* C3: a clock expiry while mcqCompleted is true invokes onSubmit, and the
\* clock invokes it once in the session however many ticks follow.
ExpiryPastMcqSubmitsOnce ==
    [][(ExpiryStep /\ st.mcqCompleted) =>
         Len(calls') >= 1 /\ Cardinality({i \in 1..Len(calls') :
                                 calls'[i].origin = "clock"}) <= 1]_vars

\* C4: when violations reach the limit while mcqCompleted is true, the final
\* submission is invoked by the violation rule, with exactly one call.
ViolationPastMcqSubmitsOnce ==
    (cnt.crossedPastMcq /\ Mounted /\ ~ViolationEffectDue) =>
        Cardinality(CallsFrom("violation")) = 1

\* C5: at most one call of onSubmit is in flight in every reachable state.
AtMostOneCallInFlight == Cardinality(PendingCalls) <= 1

\* C6: in a test with a coding section the forced jump from the MCQs to coding
\* is performed at most once per session, whichever of the clock and the
\* violation rule performs it.
ForcedJumpAtMostOnce ==
    HasCodingSection(test) => cnt.clockJumps + cnt.violationJumps <= 1

\* C7: once violations have reached the limit in a started session, the
\* violation rule (jump to coding, or submission when there is no coding
\* section) has run exactly once, and it never runs a second time.
ViolationRuleRunsOnce ==
    /\ cnt.violationTriggers <= 1
    /\ (/\ st.violations >= ViolationLimit /\ ~st.showInstructions
        /\ Mounted /\ ~ViolationEffectDue
        /\ CallsFrom("user") = {} /\ CallsFrom("clock") = {})
       => cnt.violationTriggers = 1

\* C8: every call of onSubmit hands over one entry per question of the test,
\* in the test's order, whose selectedAnswer is the recorded answer or "".
EveryCallCarriesAllQuestions ==
    [][lastCall' # NoCall =>
         AnswerPairs(lastCall'.answers) =
             AnswerPairs(SubmissionAnswers(test, st.answers))]_vars

\* C9: localStorage.removeItem is called only after an onSubmit call has
\* resolved, and at most once in a session.
CheckpointRemovedOnceAfterSuccess ==
    /\ cnt.removes <= 1
    /\ cnt.removes > 0 => \E i \in 1..Len(calls) : calls[i].status = "resolved"

CheckpointRoundTrip ==
    (life = "unloaded" /\ ~st.showInstructions /\ ~st.submitting) =>
        LET loaded == RestoreProgress(InitialState, storage)
        IN  /\ loaded.answers = st.answers
            /\ loaded.markedForReview = st.markedForReview
            /\ loaded.visitedQuestions = st.visitedQuestions
            /\ loaded.currentSectionIndex = st.currentSectionIndex
            /\ loaded.currentQuestionIndex = st.currentQuestionIndex
            /\ loaded.violations = st.violations
            /\ loaded.mcqCompleted = st.mcqCompleted
            /\ loaded.selectedCodingQuestionId = st.selectedCodingQuestionId

\* a save taken in the coding phase with an answer, a review mark, a
\* violation and the second coding question selected
SavedInCodingPhase ==
    /\ life = "unloaded" /\ ~st.showInstructions /\ ~st.submitting
    /\ st.answers # EmptyMap
    /\ \E q \in DOMAIN st.markedForReview : st.markedForReview[q]
    /\ st.violations >= 1
    /\ st.mcqCompleted
    /\ st.selectedCodingQuestionId = "c2"
    /\ storage # NoRecord

\* C12: in a started session of a test with MCQs and a coding section, once
\* timeLeft has reached zero onSubmit is eventually called (or the page is
\* left before): the coding-section case of "time up leads to submission".
TimeUpLeadsToSubmission ==
    (/\ Mounted /\ ~st.showInstructions /\ st.timeLeft = 0
     /\ HasCodingSection(test) /\ Len(AllQuestions(test)) > 0)
    ~> (calls # <<>> \/ ~Mounted)

\* the sum of the four counts of getSectionCounts
CountsSum(c) == c.answered + c.notAnswered + c.marked + c.notVisited

\* C13: in every state of a started session each question of the current
\* section passes the filter of exactly one of the four counts of
\* getSectionCounts; a marked, unanswered question is counted once.
EachQuestionInOneClass ==
    (Mounted /\ ~st.showInstructions) =>
        \A q \in SeqToSet(getCurrentSectionQuestions(test, st)) :
            Cardinality(ClassesOf(st, q)) = 1

\* C14: while no question is marked for review (only answers were selected
\* and cleared, with navigation), the four counts add up to the number of
\* questions of the current section.
UnmarkedCountsSumToSection ==
    (/\ Mounted /\ ~st.showInstructions
     /\ \A q \in DOMAIN st.markedForReview : ~st.markedForReview[q])
    => CountsSum(getSectionCounts(test, st)) =
           Len(getCurrentSectionQuestions(test, st))

\* C15: in the two-by-three test, with Q1 answered, Q2 marked for review and
\* unanswered and Q3 visited and unanswered, the counts of section 1 are
\* answered 1, notAnswered 1, marked 1, notVisited 0.
ScenarioCounts ==
    (/\ test = TestTwoByThree /\ Mounted /\ ~st.showInstructions
     /\ st.currentSectionIndex = 0 /\ st.currentQuestionIndex = 2
     /\ HasAnswer(st.answers, "q1") /\ ~IsMarked(st.markedForReview, "q1")
     /\ ~HasAnswer(st.answers, "q2") /\ IsMarked(st.markedForReview, "q2")
     /\ ~HasAnswer(st.answers, "q3") /\ ~IsMarked(st.markedForReview, "q3")
     /\ "q3" \in st.visitedQuestions)
    => getSectionCounts(test, st) =
           [answered |-> 1, notAnswered |-> 1, marked |-> 1, notVisited |-> 0]

\* C16: after start, mcqCompleted never goes from true to false, and once the
\* coding section is shown it stays shown, whatever the step.
CodingPhaseIsOneWay ==
    [][~st.showInstructions =>
         /\ st.mcqCompleted => st'.mcqCompleted
         /\ st.showCodingSection =>
                st'.showCodingSection /\ ~st'.showInstructions]_vars

\* a session in the coding phase that has since seen the clock expire, the
\* violation limit reached and a submit request
CodingPhaseAfterEvents ==
    /\ Mounted /\ st.showCodingSection /\ st.mcqCompleted
    /\ cnt.expiries >= 1
    /\ st.violations >= ViolationLimit
    /\ st.showSubmitConfirm
    /\ Len(st.codingSubmissions) >= 1

\* C17: after a submit request in the coding phase the user can confirm: with
\* showSubmitConfirm set in the coding view and no submission pending, Submit
\* Final is available.
CodingSubmitRequestCanBeConfirmed ==
    (CodingView /\ st.showSubmitConfirm /\ ~st.submitting) =>
        ENABLED ConfirmSubmit

\* C18: the interval callback takes its expiry branch (calls handleAutoSubmit)
\* at most once in a session.
ExpiryHandlerFiresOnce == cnt.expiries <= 1

\* the step in which an onSubmit call started by Submit Final rejects
UserRejectionStep ==
    /\ Len(calls') = Len(calls)
    /\ \E i \in 1..Len(calls) :
         /\ calls[i].origin = "user"
         /\ calls[i].status = "pending" /\ calls'[i].status = "rejected"

TimeSpentIsWholeMinutes ==
    [][lastCall' # NoCall =>
         lastCall'.timeSpent = lastCall'.elapsed \div 60]_vars

\* the session is past the instructions and is not submitting
ActiveNotSubmitting == ~st.showInstructions /\ ~st.submitting

\* C21: a page unload, and saveProgressDirectly of the hook, write the record
\* exactly when the session is past the instructions and not submitting, and
\* the record written is the current state; otherwise the stored record is
\* left as it was. Nothing else in a mounted session writes a record.
CheckpointWrittenIffActive ==
    [][/\ (life = "mounted" /\ life' = "unloaded") =>
             storage' = IF ActiveNotSubmitting THEN Snapshot(st) ELSE storage
       /\ saveProgressDirectly =>
             storage' = IF ActiveNotSubmitting THEN Snapshot(st) ELSE storage
       /\ (Mounted /\ storage' # storage /\ storage' # NoRecord) =>
             ActiveNotSubmitting /\ storage' = Snapshot(st)]_vars

\* the page was left while a submission was pending: the record saved earlier
\* in the session is still the stored one, and it is not the current state
UnloadedWhileSubmitting ==
    /\ life = "unloaded" /\ ~st.showInstructions /\ st.submitting
    /\ storage # NoRecord
    /\ storage # Snapshot(st)

\* C22: localStorage.getItem is called once, by the restore effect at mount
\* while the instructions are shown; a step of the mounted session that
\* writes a record leaves the component state as it is.
CheckpointReadOnlyAtMount ==
    [][/\ cnt'.loads # cnt.loads =>
             life = "constructed" /\ st.showInstructions /\ cnt.loads = 0
       /\ (Mounted /\ storage' # storage /\ storage' # NoRecord) => st' = st]_vars

\* a started session that saved a record and then went on: the stored record
\* differs from the live answers, and the record was read once, at mount
WentOnAfterSave ==
    /\ Mounted /\ ~st.showInstructions
    /\ cnt.loads = 1
    /\ storage # NoRecord /\ storage \notin SavedRecords(test)
    /\ storage.answers # st.answers
    /\ storage.violations < st.violations

\* C23: after the restore effect has run over a record, each of the eight
\* fields the record has holds the stored value and each field it lacks holds
\* its useState initial value; over a malformed record the whole state is the
\* initial one, and the test can be started.
HydratedFieldByField ==
    (Mounted /\ st.showInstructions) =>
        /\ storage # Malformed =>
              \A field \in RestoredFields :
                 st[field] = IF field \in DOMAIN storage THEN storage[field]
                             ELSE InitialState[field]
        /\ storage = Malformed =>
              /\ [st EXCEPT !.agreedToTerms = FALSE] = InitialState
              /\ st.agreedToTerms => ENABLED (handleStartTest /\ ~st'.showInstructions)

\* mounted over a record that has the question index and the violations but
\* neither the answers nor the visited set
HydratedFromPartialRecord ==
    /\ Mounted /\ st.showInstructions
    /\ storage # Malformed
    /\ DOMAIN storage = {"currentQuestionIndex", "violations"}
    /\ st.currentQuestionIndex = 1 /\ st.violations = 2
    /\ st.answers = EmptyMap /\ st.visitedQuestions = {}

\* C24: in a started session a hide event adds one to violations, and no
\* step changes violations in any other way: it never decreases, and a step
\* that raises it raises it by one and changes nothing else; while the
\* instructions are shown no step of the mounted session changes it.
ViolationsCountHideEvents ==
    [][/\ handleVisibilityChange => st'.violations = st.violations + 1
       /\ (Mounted /\ ~st.showInstructions /\ st'.violations # st.violations) =>
             st' = [st EXCEPT !.violations = @ + 1]
       /\ (Mounted /\ st.showInstructions) =>
             st'.violations = st.violations]_vars

\* hide events are counted past the limit while a submission is pending in
\* the coding view
HideCountedWhileSubmittingInCoding ==
    /\ CodingView /\ st.submitting /\ PendingCalls # {}
    /\ st.violations >= ViolationLimit
    /\ ENABLED handleVisibilityChange

\* C25: in every state of a session, fresh or resumed from a record and then
\* started, every question with an entry in answers is in visitedQuestions.
AnsweredImpliesVisited ==
    \A q \in DOMAIN st.answers : q \in st.visitedQuestions

\* the answer ledger: answers, review marks and visited flags
Ledger(s) == <<s.answers, s.markedForReview, s.visitedQuestions>>

\* C26: in a started session a step changes answers, markedForReview or
\* visitedQuestions only in the MCQ phase with no submission pending: never in
\* the coding phase, never while an onSubmit call is awaited, and never on a
\* clock tick or a hide event.
LedgerChangedOnlyInMcqPhase ==
    [][(Mounted /\ ~st.showInstructions /\ Ledger(st') # Ledger(st)) =>
         /\ ~st.showCodingSection
         /\ PendingCalls = {} /\ ~st.submitting
         /\ st'.timeLeft = st.timeLeft
         /\ st'.violations = st.violations]_vars

\* C27: once an onSubmit call has resolved, the record is absent in every
\* later state: the session has ended and no page unload writes it again.
NoCheckpointAfterSuccess ==
    (\E i \in 1..Len(calls) : calls[i].status = "resolved") =>
        /\ storage = NoRecord
        /\ ~Mounted
        /\ ~ENABLED handleBeforeUnload

\* a session resumed from a record (mcqCompleted restored, coding section
\* not shown) whose submission succeeded: the record it was resumed from is gone
ResumedSessionSubmitted ==
    /\ life = "exited"
    /\ \E i \in 1..Len(calls) : calls[i].status = "resolved"
    /\ st.mcqCompleted /\ ~st.showCodingSection
    /\ SavedRecords(test) # {}
    /\ storage = NoRecord

\* C28: handleStartTest with agreedToTerms set leaves the instructions; when
\* the current section has questions the MCQ view is entered with no dialog
\* and the section's first question in visitedQuestions; when the test has
\* no MCQ question and has a coding section the coding view is entered with
\* mcqCompleted set and the first coding question selected. With
\* agreedToTerms unset it changes nothing, and nothing else leaves the
\* instructions.
StartEntersFirstPhase ==
    [][/\ (handleStartTest /\ ~st.agreedToTerms) => UNCHANGED vars
       /\ (Mounted /\ st.showInstructions /\ ~st.agreedToTerms) =>
             st'.showInstructions
       /\ (handleStartTest /\ st.agreedToTerms) =>
             LET questions == getCurrentSectionQuestions(test, st)
             IN  /\ ~st'.showInstructions
                 /\ Len(questions) > 0 =>
                       /\ ~st'.showCodingSection
                       /\ ~st'.showSectionComplete /\ ~st'.showSubmitConfirm
                       /\ getCurrentQuestion(test, st') # NoQuestion
                       /\ questions[1] \in st'.visitedQuestions
                 /\ (Len(AllQuestions(test)) = 0 /\ HasCodingSection(test)) =>
                       /\ st'.showCodingSection
                       /\ st'.mcqCompleted
                       /\ st'.selectedCodingQuestionId = test.codingQuestions[1]]_vars

\* the test without MCQs has just been started: the coding view is shown
\* with the first coding question selected and the clock untouched
StartedInCodingView ==
    /\ Len(AllQuestions(test)) = 0
    /\ CodingView /\ st.mcqCompleted
    /\ st.selectedCodingQuestionId = test.codingQuestions[1]
    /\ st.timeLeft = InitialTimeLeft /\ st.violations = 0
    /\ cnt.userJumps = 1

\* a step of Save & Next or of Mark for Review & Next: either changes the
\* question index or opens the section dialog
AdvanceStep ==
    /\ st'.currentQuestionIndex # st.currentQuestionIndex \/ st'.showSectionComplete
    /\ SaveAndNext \/ MarkForReviewAndNext

\* C29: in the section dialog, Review closes it with both indices unchanged;
\* Proceed moves to question 0 of the next section and marks it visited when
\* a section follows, else enters coding with mcqCompleted when the test has
\* a coding section, else opens the submit dialog. Save & Next and Mark for
\* Review & Next open the section dialog exactly on the last question of the
\* section, and otherwise move to the next index and mark that question
\* visited.
SectionDialogAndAdvance ==
    [][/\ ReviewAnswers =>
             /\ ~st'.showSectionComplete
             /\ ~st'.showCodingSection /\ ~st'.showSubmitConfirm
             /\ st'.currentSectionIndex = st.currentSectionIndex
             /\ st'.currentQuestionIndex = st.currentQuestionIndex
       /\ ProceedSection =>
             IF test.hasSections /\ st.currentSectionIndex + 1 < Len(test.sections)
             THEN /\ st'.currentSectionIndex = st.currentSectionIndex + 1
                  /\ st'.currentQuestionIndex = 0
                  /\ test.sections[st.currentSectionIndex + 2][1] \in st'.visitedQuestions
                  /\ ~st'.showSectionComplete /\ ~st'.showSubmitConfirm
                  /\ ~st'.showCodingSection
             ELSE IF HasCodingSection(test)
             THEN st'.showCodingSection /\ st'.mcqCompleted /\ ~st'.showSubmitConfirm
             ELSE st'.showSubmitConfirm /\ ~st'.showCodingSection
       /\ AdvanceStep =>
             LET questions == getCurrentSectionQuestions(test, st)
             IN  IF st.currentQuestionIndex + 1 = Len(questions)
                 THEN /\ st'.showSectionComplete
                      /\ st'.currentQuestionIndex = st.currentQuestionIndex
                      /\ st'.visitedQuestions = st.visitedQuestions
                 ELSE /\ ~st'.showSectionComplete
                      /\ st'.currentQuestionIndex = st.currentQuestionIndex + 1
                      /\ questions[st.currentQuestionIndex + 2] \in st'.visitedQuestions]_vars

\* Proceed was pressed in the dialog of the last section of a sectioned test
\* without coding section: the submit dialog is open over the section dialog
ProceededToSubmitDialog ==
    /\ Mounted /\ test.hasSections
    /\ st.currentSectionIndex + 1 = Len(test.sections)
    /\ st.currentSectionIndex > 0
    /\ st.showSectionComplete /\ st.showSubmitConfirm

\* C30: a failing fullscreen API stops neither the submission nor the start:
\* every Submit Final pressed with no submission in progress calls onSubmit,
\* whatever exitFullscreen does, and every start with agreedToTerms set
\* leaves the instructions.
FullscreenFailureIsNotFatal ==
    [][/\ ConfirmSubmit =>
             /\ Len(calls') = Len(calls) + 1
             /\ lastCall' # NoCall
             /\ lastCall'.answers = SubmissionAnswers(test, st.answers)
       /\ (handleStartTest /\ st.agreedToTerms) => ~st'.showInstructions]_vars

\* C31: codingSubmissions only grows, by one entry appended at its end per
\* step, and every call of onSubmit hands over the whole sequence recorded
\* so far, in order.
CodingSubmissionsAppendOnlyAndHandedOver ==
    [][/\ Mounted =>
             \/ st'.codingSubmissions = st.codingSubmissions
             \/ /\ Len(st'.codingSubmissions) = Len(st.codingSubmissions) + 1
                /\ SubSeq(st'.codingSubmissions, 1, Len(st.codingSubmissions))
                       = st.codingSubmissions
       /\ lastCall' # NoCall =>
             lastCall'.codingSubmissions = st.codingSubmissions]_vars

\* C32: up to and including the start, timeLeft is the full duration of the
\* test, whatever timeLeft the stored record holds: the restore effect does
\* not read it.
ResumedClockStartsAtFullDuration ==
    [][st.showInstructions => st'.timeLeft = InitialTimeLeft]_vars

\* a session resumed from a record with less time left has just been
\* started with the full duration on its clock
ResumedWithFullClock ==
    /\ Mounted /\ ~st.showInstructions
    /\ storage # NoRecord /\ storage.timeLeft < InitialTimeLeft
    /\ st.violations = storage.violations
    /\ st.timeLeft = InitialTimeLeft

\* a step of Clear Response: it removes a key of answers
ClearStep ==
    /\ DOMAIN st'.answers # DOMAIN st.answers
    /\ ClearResponse

\* C33: Clear Response removes the answer and the review mark of the current
\* question and leaves the answers and marks of the other questions, the
\* visited set and the position as they were; selecting an answer and then
\* clearing leaves the question without answer and without mark.
ClearResponseIsCoupledAndLocal ==
    [][/\ ClearStep =>
             LET q == getCurrentQuestion(test, st)
             IN  /\ ~HasAnswer(st'.answers, q)
                 /\ ~IsMarked(st'.markedForReview, q)
                 /\ DOMAIN st'.answers = DOMAIN st.answers \ {q}
                 /\ \A k \in DOMAIN st'.answers : st'.answers[k] = st.answers[k]
                 /\ DOMAIN st'.markedForReview = DOMAIN st.markedForReview \ {q}
                 /\ \A k \in DOMAIN st'.markedForReview :
                        st'.markedForReview[k] = st.markedForReview[k]
                 /\ st'.visitedQuestions = st.visitedQuestions
                 /\ st'.currentSectionIndex = st.currentSectionIndex
                 /\ st'.currentQuestionIndex = st.currentQuestionIndex
       /\ McqControls =>
             LET q == getCurrentQuestion(test, st)
             IN  \A answer \in Options(q) :
                    LET cleared == handleClearResponse(test,
                                       handleAnswerSelect(st, q, answer))
                    IN  /\ ~HasAnswer(cleared.answers, q)
                        /\ ~IsMarked(cleared.markedForReview, q)]_vars

\* the answer the first question had when the test was started has been
\* cleared, while the second question keeps its answer and its review mark
ClearedFirstKeptSecond ==
    /\ McqView /\ timerClosure # NoClosure
    /\ HasAnswer(timerClosure.answers, "q1")
    /\ "q1" \notin DOMAIN st.answers /\ "q1" \notin DOMAIN st.markedForReview
    /\ HasAnswer(st.answers, "q2") /\ IsMarked(st.markedForReview, "q2")

\* C34: a tick of the running clock takes one from timeLeft while it is
\* above zero and leaves it at zero afterwards; no step changes timeLeft in
\* any other way, so it never increases, never goes below zero and stays as
\* it is while the instructions are shown.
TimeLeftCountsDownToZero ==
    [][/\ st'.timeLeft # st.timeLeft =>
             /\ Mounted /\ ~st.showInstructions
             /\ st.timeLeft > 0
             /\ st'.timeLeft = st.timeLeft - 1
       /\ Tick => st'.timeLeft = IF st.timeLeft > 0 THEN st.timeLeft - 1 ELSE 0
       /\ st'.timeLeft >= 0]_vars

\* the clock has counted down to zero, expired more than once, and still ticks
ClockAtZeroStillTicking ==
    /\ Mounted /\ ~st.showInstructions
    /\ st.timeLeft = 0
    /\ cnt.expiries >= 2
    /\ ENABLED Tick

\* C35: whenever the MCQ view shows a question, that question is in
\* visitedQuestions, also in a session resumed from a record whose
\* currentQuestionIndex is not 0.
DisplayedQuestionIsVisited ==
    McqView => getCurrentQuestion(test, st) \in st.visitedQuestions

\* C36: in a started session mcqCompleted implies that the coding section is
\* shown, so that no MCQ answer can be selected once mcqCompleted is set,
\* also after a reload and a new start.
McqCompletedShowsCoding ==
    (Mounted /\ ~st.showInstructions /\ st.mcqCompleted) =>
        /\ st.showCodingSection
        /\ ~ENABLED SelectAnswer

\* C37: while the coding section is shown, a step that changes
\* selectedCodingQuestionId is the user's selection of a coding question;
\* clock ticks, also at and after expiry, and hide events leave it alone.
SelectedCodingQuestionChangesByUserOnly ==
    [][(/\ Mounted /\ st.showCodingSection
        /\ st'.selectedCodingQuestionId # st.selectedCodingQuestionId)
       => SelectCodingQuestion]_vars

\* C38: in a session resumed from a record that holds coding submissions,
\* every call of onSubmit hands over the entries of the record (followed or
\* not by entries recorded since).
ReloadKeepsCodingSubmissions ==
    [][(lastCall' # NoCall /\ storage \in CodingRecords) =>
         \A i \in DOMAIN storage.codingSubmissions :
            \E j \in DOMAIN lastCall'.codingSubmissions :
               lastCall'.codingSubmissions[j] = storage.codingSubmissions[i]]_vars

\* the map JSON.parse gives for the item under 'testProgress'; no item, no ids
PersistedTests == IF storage = NoRecord THEN EmptyMap ELSE storage

\* C39: once the provider has rendered after a sequence of saveTestProgress,
\* clearTestProgress and clearAllProgress calls, the item stored under
\* 'testProgress' holds the same test ids and progress values as savedTests,
\* and getTestProgress gives for each id the progress saved last, or null
\* after a clear.
PersistedMatchesSavedTests ==
    st.updates = 0 =>
        /\ PersistedTests = st.savedTests
        /\ \A testId \in TestIds :
              getTestProgress(testId) =
                  IF testId \in DOMAIN st.queued THEN st.queued[testId] ELSE NoQuestion

=============================================================================
